---------------------------- MODULE Spec2Model ----------------------------
(***************************************************************************)
(* optitrack.csv_reader: the parser of Optitrack CSV takes (format 1.2 and *)
(* 1.21), src/python/optitrack/csv_reader.py.                              *)
(*                                                                         *)
(* The state is one Take object, the CSV stream it is reading (the lists   *)
(* of fields CSVReader has returned so far, one for each line consumed)    *)
(* and the position of readCSV in its code.  The text of the input is      *)
(* modelled cell by cell: a raw line is the sequence                       *)
(* of its comma-separated cells, each a string; a Python float is the      *)
(* integer number of tenths it stands for (1.0 is 10, 0.5 is 5); a Python  *)
(* list is the sequence of its elements and list index i is element i+1;   *)
(* the value None in a list of vectors is the empty sequence.              *)
(***************************************************************************)
EXTENDS Integers, Sequences, FiniteSets, TLC

VARIABLES take, stream, pc, err, parses

vars == <<take, stream, pc, err, parses>>

(***************************************************************************)
(* Bounds of the model.                                                    *)
(***************************************************************************)
\* data rows read by one readCSV
MaxRows == 2
\* data columns of a generated header
MaxCols == 2
\* readCSV calls on one Take object
MaxParses == 2

(***************************************************************************)
(* Python values and conversions.                                          *)
(***************************************************************************)
\* None where the other values are strings (Take.rotation_type)
PyNone == "None"

\* None where the other values are vectors (positions[k], rotations[k])
None == <<>>

\* The decimal literals of the inputs and the float each denotes, in tenths.
FloatLit ==
    ("0.0" :> 0) @@ ("0.5" :> 5) @@ ("1.0" :> 10) @@ ("1" :> 10) @@
    ("2" :> 20) @@ ("2.0" :> 20) @@ ("3.0" :> 30) @@ ("0" :> 0) @@
    ("-1" :> -10) @@ ("100.000000" :> 1000)

\* float(s) succeeds
IsFloat(s) == s \in DOMAIN FloatLit

\* float(s) of a string
float(s) == FloatLit[s]

\* float(n) of an int
floatOfInt(n) == n * 10

\* the integers whose decimal form may occur in a frame cell
IntLits == (0 - (MaxRows + 1)) .. (MaxRows + 1)

\* the decimal form of each of them
IntLit == [i \in IntLits |-> ToString(i)]

\* int(s) succeeds: s is the decimal form of an integer ("1.0" and "" are not)
IsInt(s) == \E i \in IntLits : IntLit[i] = s

\* int(s)
int(s) == CHOOSE i \in IntLits : IntLit[i] = s

\* seq[n:], the slice of a list from index n on
SliceFrom(seq, n) == IF Len(seq) <= n THEN <<>> ELSE SubSeq(seq, n + 1, Len(seq))

\* Index i of a list of length n is in range: Python accepts -n .. n-1.
IndexInRange(n, i) == (0 - n) <= i /\ i < n

\* The element (1-based) a list of length n gives for index i.
PyIndex(n, i) == IF i < 0 THEN n + i + 1 ELSE i + 1

\* dict.get(key, default)
DictGet(d, key, default) == IF key \in DOMAIN d THEN d[key] ELSE default

\* d[key] = value
DictSet(d, key, value) ==
    [k \in (DOMAIN d) \cup {key} |-> IF k = key THEN value ELSE d[k]]

\* the empty dict
EmptyDict == [k \in {} |-> ""]

Min2(a, b) == IF a <= b THEN a ELSE b

(***************************************************************************)
(* CSVReader.next: one raw line to its list of fields.                     *)
(***************************************************************************)
\* str.rstrip() on the last cell of the line: trailing whitespace goes
RStrip(cell) ==
    CASE cell = " " -> ""
      [] cell = "Meters\r" -> "Meters"
      [] cell = "1.0\r" -> "1.0"
      [] OTHER -> cell

\* str.replace('"', '') on one cell
Unquote(cell) ==
    CASE cell = "\"1\"" -> "1"
      [] cell = "\"2\"" -> "2"
      [] cell = "\"Body1\"" -> "Body1"
      [] OTHER -> cell

CSVReader_next(line) ==
    LET n == Len(line)
        stripped == [i \in 1..n |-> IF i = n THEN RStrip(line[i]) ELSE line[i]]
    IN  IF stripped = <<"">> THEN <<>>
        ELSE [i \in 1..n |-> Unquote(stripped[i])]

(***************************************************************************)
(* RigidBody                                                               *)
(***************************************************************************)
RigidBody(label, ID) ==
    [label |-> label, ID |-> ID,
     positions |-> <<>>, rotations |-> <<>>, times |-> <<>>]

\* _add_frame without the rotation slot
_add_frame_no_rotation(self, t) ==
    [self EXCEPT !.times = Append(@, t),
                 !.positions = Append(@, None)]

\* _add_frame with zero vectors for the new slots
_add_frame_zero_vectors(self, t) ==
    [self EXCEPT !.times = Append(@, t),
                 !.positions = Append(@, <<0, 0, 0>>),
                 !.rotations = Append(@, <<0, 0, 0, 0>>)]

_add_frame(self, t) ==
    [self EXCEPT !.times = Append(@, t),
                 !.positions = Append(@, None),
                 !.rotations = Append(@, None)]

\* _set_position storing a fresh zero vector at every call
_set_position_always_allocates(self, frame, axis, value) ==
    IF value = "" THEN [body |-> self, err |-> ""]
    ELSE IF ~IndexInRange(Len(self.positions), frame)
         THEN [body |-> self, err |-> "IndexError"]
    ELSE LET k == PyIndex(Len(self.positions), frame)
             alloc == [self EXCEPT !.positions[k] = <<0, 0, 0>>]
         IN  IF ~IsFloat(value) THEN [body |-> alloc, err |-> "ValueError"]
             ELSE [body |-> [alloc EXCEPT !.positions[k][axis + 1] = float(value)],
                   err |-> ""]

\* The body after the call, and the exception it raised ("" for none).  The
\* zero vector is stored before float(value) is evaluated.
_set_position(self, frame, axis, value) ==
    IF value = "" THEN [body |-> self, err |-> ""]
    ELSE IF ~IndexInRange(Len(self.positions), frame)
         THEN [body |-> self, err |-> "IndexError"]
    ELSE LET k == PyIndex(Len(self.positions), frame)
             alloc == IF self.positions[k] = None
                      THEN [self EXCEPT !.positions[k] = <<0, 0, 0>>]
                      ELSE self
         IN  IF ~IsFloat(value) THEN [body |-> alloc, err |-> "ValueError"]
             ELSE [body |-> [alloc EXCEPT !.positions[k][axis + 1] = float(value)],
                   err |-> ""]

_set_rotation(self, frame, axis, value) ==
    IF value = "" THEN [body |-> self, err |-> ""]
    ELSE IF ~IndexInRange(Len(self.rotations), frame)
         THEN [body |-> self, err |-> "IndexError"]
    ELSE LET k == PyIndex(Len(self.rotations), frame)
             alloc == IF self.rotations[k] = None
                      THEN [self EXCEPT !.rotations[k] = <<0, 0, 0, 0>>]
                      ELSE self
         IN  IF ~IsFloat(value) THEN [body |-> alloc, err |-> "ValueError"]
             ELSE [body |-> [alloc EXCEPT !.rotations[k][axis + 1] = float(value)],
                   err |-> ""]

(***************************************************************************)
(* Take                                                                    *)
(***************************************************************************)
\* Take.__init__
Take ==
    [frame_rate |-> floatOfInt(120), rotation_type |-> "Quaternion",
     units |-> "Meters",
     rigid_bodies |-> EmptyDict,
     _raw_info |-> EmptyDict,
     _raw_types |-> <<>>, _raw_labels |-> <<>>,
     _raw_fields |-> <<>>, _raw_axes |-> <<>>,
     _ignored_labels |-> {},
     _column_map |-> <<>>]

\* readCSV keeping the bodies of the earlier read
ResetForRead_keeps_bodies(self) ==
    [self EXCEPT !._raw_info = EmptyDict,
                 !._ignored_labels = {},
                 !._column_map = <<>>]

\* The four assignments that open readCSV.
ResetForRead(self) ==
    [self EXCEPT !.rigid_bodies = EmptyDict,
                 !._raw_info = EmptyDict,
                 !._ignored_labels = {},
                 !._column_map = <<>>]

\* one pair short
NumPairs_one_short(line1) == (Len(line1) \div 2) - 1

\* range(len(line1)/2): the number of (key, value) pairs stored from line 1
NumPairs(line1) == Len(line1) \div 2

\* the loop that stores the pairs of line 1 in _raw_info, a later pair
\* overwriting an earlier one with the same key
RECURSIVE StorePairs(_, _, _)
StorePairs(info, line1, columnidx) ==
    IF columnidx >= NumPairs(line1) THEN info
    ELSE StorePairs(DictSet(info, line1[2 * columnidx + 1], line1[2 * columnidx + 2]),
                    line1, columnidx + 1)

\* every 1.x version accepted
FormatOK_any_1x(format) == format = "1.21" \/ format = "1.2" \/ format = "1.0"

\* the accepted values of "Format Version"
FormatOK(format) == format = "1.21" \/ format = "1.2"

\* a missing "Rotation Type" accepted as the default
RotationOK_or_missing(rotation_type) ==
    rotation_type = "Quaternion" \/ rotation_type = PyNone

\* the accepted value of "Rotation Type"
RotationOK(rotation_type) == rotation_type = "Quaternion"

\* _read_header up to its second next(stream): the take after line 1 and the
\* exception raised ("" for none).
HeaderLine1(self, line1) ==
    IF Len(line1) = 0 THEN [take |-> self, err |-> "IndexError"]
    ELSE IF line1[1] # "Format Version" THEN [take |-> self, err |-> "AssertionError"]
    ELSE IF Len(line1) < 2 THEN [take |-> self, err |-> "IndexError"]
    ELSE IF ~FormatOK(line1[2]) THEN [take |-> self, err |-> "AssertionError"]
    ELSE LET info == StorePairs(self._raw_info, line1, 0)
             t1 == [self EXCEPT !._raw_info = info,
                                !.rotation_type = DictGet(info, "Rotation Type", PyNone)]
         IN  IF ~RotationOK(t1.rotation_type) THEN [take |-> t1, err |-> "AssertionError"]
             ELSE IF "Export Frame Rate" \in DOMAIN info
                     /\ ~IsFloat(info["Export Frame Rate"])
                  THEN [take |-> t1, err |-> "ValueError"]
             ELSE [take |-> [t1 EXCEPT
                       !.frame_rate = IF "Export Frame Rate" \in DOMAIN info
                                      THEN float(info["Export Frame Rate"])
                                      ELSE floatOfInt(120),
                       !.units = DictGet(info, "Length Units", "Meters")],
                   err |-> ""]

\* line 2 must be blank
HeaderLine2(self, line2) ==
    IF Len(line2) = 0 THEN [take |-> self, err |-> ""]
    ELSE [take |-> self, err |-> "AssertionError"]

supported_types == {"Rigid Body", "Rigid Body Marker", "Marker"}

\* line 3: the asset type of every data column
HeaderLine3(self, line3) ==
    LET t1 == [self EXCEPT !._raw_types = SliceFrom(line3, 2)]
        all_types == {t1._raw_types[i] : i \in 1..Len(t1._raw_types)}
    IN  IF all_types \subseteq supported_types THEN [take |-> t1, err |-> ""]
        ELSE [take |-> t1, err |-> "AssertionError"]

\* the axis designators of a rotation and of a position column
RotationAxes == ("X" :> 0) @@ ("Y" :> 1) @@ ("Z" :> 2) @@ ("W" :> 3)

PositionAxes == ("X" :> 0) @@ ("Y" :> 1) @@ ("Z" :> 2)

\* the markers of a rigid body taken for rigid bodies
IsRigidBody_or_its_marker(asset_type) ==
    asset_type = "Rigid Body" \/ asset_type = "Rigid Body Marker"

\* asset_type == 'Rigid Body'
IsRigidBody(asset_type) == asset_type = "Rigid Body"

ColumnMapping(setter, axis, column) ==
    [setter |-> setter, axis |-> axis, column |-> column]

\* the bound method body._set_rotation or body._set_position of the body
\* stored under label
BoundSetter(label, func) == [self |-> label, func |-> func]

\* One iteration of the loop over the zipped lines 3 to 7, for column col.
HeaderColumn(self, col, asset_type, label, ID, field, axis) ==
    IF IsRigidBody(asset_type)
    THEN LET bodies == IF label \in DOMAIN self.rigid_bodies
                       THEN self.rigid_bodies
                       ELSE DictSet(self.rigid_bodies, label, RigidBody(label, ID))
             t1 == [self EXCEPT !.rigid_bodies = bodies]
         IN  IF field = "Rotation"
             THEN IF axis \in DOMAIN RotationAxes
                  THEN [take |-> [t1 EXCEPT !._column_map = Append(@,
                                     ColumnMapping(BoundSetter(label, "_set_rotation"),
                                                   RotationAxes[axis], col))],
                        err |-> ""]
                  ELSE [take |-> t1, err |-> "KeyError"]
             ELSE IF field = "Position"
             THEN IF axis \in DOMAIN PositionAxes
                  THEN [take |-> [t1 EXCEPT !._column_map = Append(@,
                                     ColumnMapping(BoundSetter(label, "_set_position"),
                                                   PositionAxes[axis], col))],
                        err |-> ""]
                  ELSE [take |-> t1, err |-> "KeyError"]
             ELSE [take |-> t1, err |-> ""]
    ELSE [take |-> [self EXCEPT !._ignored_labels = @ \cup {label}], err |-> ""]

\* the loop over zip(range(len(types)), types, labels, line5[2:], fields, axes),
\* which stops at the shortest of the lists
RECURSIVE HeaderColumns(_, _, _, _)
HeaderColumns(self, ids, col, n) ==
    IF col >= n THEN [take |-> self, err |-> ""]
    ELSE LET r == HeaderColumn(self, col, self._raw_types[col + 1],
                               self._raw_labels[col + 1], ids[col + 1],
                               self._raw_fields[col + 1], self._raw_axes[col + 1])
         IN  IF r.err # "" THEN r ELSE HeaderColumns(r.take, ids, col + 1, n)

\* lines 4 to 7 and the loop over the columns
HeaderLines4to7(self, line4, line5, line6, line7) ==
    LET t1 == [self EXCEPT !._raw_labels = SliceFrom(line4, 2),
                           !._raw_fields = SliceFrom(line6, 2),
                           !._raw_axes = SliceFrom(line7, 2)]
        ids == SliceFrom(line5, 2)
        n == Min2(Min2(Len(t1._raw_types), Len(t1._raw_labels)),
                  Min2(Len(ids), Min2(Len(t1._raw_fields), Len(t1._raw_axes))))
    IN  HeaderColumns(t1, ids, 0, n)

(***************************************************************************)
(* Take._read_data, one row                                                *)
(***************************************************************************)
\* for body in self.rigid_bodies.values(): body._add_frame(frame_t)
AddFrames(bodies, frame_t) ==
    [l \in DOMAIN bodies |-> _add_frame(bodies[l], frame_t)]

\* mapping.setter(frame_num, mapping.axis, value) on the body the setter is bound to
CallSetter(bodies, mapping, frame_num, value) ==
    LET self == bodies[mapping.setter.self]
        r == IF mapping.setter.func = "_set_position"
             THEN _set_position(self, frame_num, mapping.axis, value)
             ELSE _set_rotation(self, frame_num, mapping.axis, value)
    IN  [bodies |-> [bodies EXCEPT ![mapping.setter.self] = r.body], err |-> r.err]

\* for mapping in self._column_map: ..., from mapping i (1-based) on
RECURSIVE ApplyMappings(_, _, _, _, _)
ApplyMappings(bodies, column_map, i, frame_num, values) ==
    IF i > Len(column_map) THEN [bodies |-> bodies, err |-> ""]
    ELSE IF column_map[i].column >= Len(values)
         THEN [bodies |-> bodies, err |-> "IndexError"]
    ELSE LET r == CallSetter(bodies, column_map[i], frame_num,
                             values[column_map[i].column + 1])
         IN  IF r.err # "" THEN r
             ELSE ApplyMappings(r.bodies, column_map, i + 1, frame_num, values)

\* the frame index taken as counted from one
SlotOfRow_from_one(frame_num) == frame_num - 1

\* the frame index _read_data passes to the setters for a row
SlotOfRow(frame_num) == frame_num

\* the body of the loop of _read_data for one row
DataRow(self, row) ==
    IF Len(row) = 0 THEN [take |-> self, err |-> "IndexError"]
    ELSE IF ~IsInt(row[1]) THEN [take |-> self, err |-> "ValueError"]
    ELSE IF Len(row) < 2 THEN [take |-> self, err |-> "IndexError"]
    ELSE IF ~IsFloat(row[2]) THEN [take |-> self, err |-> "ValueError"]
    ELSE LET frame_num == int(row[1])
             frame_t == float(row[2])
             values == SliceFrom(row, 2)
             framed == AddFrames(self.rigid_bodies, frame_t)
             r == ApplyMappings(framed, self._column_map, 1,
                                SlotOfRow(frame_num), values)
         IN  [take |-> [self EXCEPT !.rigid_bodies = r.bodies], err |-> r.err]

(***************************************************************************)
(* The inputs: raw lines of a CSV export.                                  *)
(***************************************************************************)
\* first lines a well-formed or a broken export may carry
Line1Full ==
    <<"Format Version", "1.21", "Take Name", "t1", "Export Frame Rate",
      "100.000000", "Rotation Type", "Quaternion", "Length Units", "Centimeters">>

Line1Minimal == <<"Format Version", "1.2", "Rotation Type", "Quaternion">>

Line1CR ==
    <<"Format Version", "1.21", "Rotation Type", "Quaternion", "Length Units", "Meters\r">>

Line1OldVersion == <<"Format Version", "1.0", "Rotation Type", "Quaternion">>

Line1Euler == <<"Format Version", "1.21", "Rotation Type", "Euler">>

Line1NoRotation == <<"Format Version", "1.21">>

Line1NoRotationRate ==
    <<"Format Version", "1.2", "Export Frame Rate", "100.000000", "Length Units", "Centimeters">>

Line1OddTrailingKey ==
    <<"Format Version", "1.21", "Rotation Type", "Quaternion", "Length Units">>

Line1OddRotationKey == <<"Format Version", "1.21", "Rotation Type">>

Line1OddBadVersion == <<"Format Version", "1.0", "Rotation Type">>

Line1OnlyKey == <<"Format Version">>

Line1Blank == <<"">>

Line1OtherKeyFirst ==
    <<"Take Name", "t1", "Format Version", "1.21", "Rotation Type", "Quaternion">>

Line1BadRate ==
    <<"Format Version", "1.21", "Rotation Type", "Quaternion", "Export Frame Rate", "fast">>

HeaderLine1s ==
    {Line1Full, Line1Minimal, Line1CR, Line1OldVersion, Line1Euler, Line1NoRotation,
     Line1NoRotationRate, Line1OddTrailingKey, Line1OddRotationKey, Line1OddBadVersion,
     Line1OnlyKey, Line1Blank, Line1OtherKeyFirst, Line1BadRate}

DataLine1s == {Line1Full, Line1OldVersion}

ReuseLine1s == {Line1Full, Line1Minimal, Line1Euler}

\* second lines: blank, blank but for a space, not blank
Line2s == {<<"">>, <<" ">>, <<"x">>}

\* One data column of the header: its cells on lines 3 to 7.
Column(type, label, ID, field, axis) ==
    [type |-> type, label |-> label, ID |-> ID, field |-> field, axis |-> axis]

\* Lines 3 to 7 of a header with the given data columns.
Layout(cols) ==
    [line3 |-> <<"", "">> \o [i \in 1..Len(cols) |-> cols[i].type],
     line4 |-> <<"", "">> \o [i \in 1..Len(cols) |-> cols[i].label],
     line5 |-> <<"", "ID">> \o [i \in 1..Len(cols) |-> cols[i].ID],
     line6 |-> <<"", "">> \o [i \in 1..Len(cols) |-> cols[i].field],
     line7 |-> <<"Frame", "Time">> \o [i \in 1..Len(cols) |-> cols[i].axis]]

\* the same header with the last cell of line 7 missing
Ragged(layout) ==
    [layout EXCEPT !.line7 = SubSeq(@, 1, Len(@) - 1)]

B1(field, axis) == Column("Rigid Body", "Body1", "\"1\"", field, axis)

B2(field, axis) == Column("Rigid Body", "Body2", "\"2\"", field, axis)

\* the columns a generated header is made of
Columns ==
    {B1("Position", "X"), B1("Rotation", "W"), B1("Mean Marker Error", ""),
     B2("Position", "Z"), B2("Position", "W"), B2("Rotation", ""),
     Column("Rigid Body", "Body1", "\"2\"", "Position", "Y"),
     Column("Marker", "M1", "\"1\"", "Position", "X"),
     Column("Rigid Body Marker", "Body1", "\"2\"", "Position", "Y"),
     Column("Bone", "Body1", "\"1\"", "Position", "X")}

\* the rigid body of the example: three position and four rotation columns
ExampleLayout ==
    Layout(<<B1("Position", "X"), B1("Position", "Y"), B1("Position", "Z"),
             B1("Rotation", "X"), B1("Rotation", "Y"), B1("Rotation", "Z"),
             B1("Rotation", "W")>>)

\* a rigid body, three marker columns of one label and a marker of the body
MarkersLayout ==
    Layout(<<B1("Position", "X"),
             Column("Marker", "M1", "\"1\"", "Position", "X"),
             Column("Marker", "M1", "\"1\"", "Position", "Y"),
             Column("Marker", "M1", "\"1\"", "Position", "Z"),
             Column("Rigid Body Marker", "Body1", "\"2\"", "Position", "X"),
             B2("Rotation", "W")>>)

\* every header of at most MaxCols columns, each also with line 7 cut short,
\* and the two wider headers
GeneratedLayouts ==
    LET full == UNION {{Layout(cols) : cols \in [1..n -> Columns]} : n \in 0..MaxCols}
    IN  full \cup {Ragged(l) : l \in {f \in full : Len(f.line7) > 2}}
             \cup {ExampleLayout, MarkersLayout}

\* the headers the data rows are read under
DataLayouts ==
    {Layout(<<>>),
     Layout(<<B1("Position", "X")>>),
     Layout(<<B1("Position", "X"), B1("Position", "Z")>>),
     Layout(<<B1("Position", "Y"), B2("Rotation", "W")>>),
     Layout(<<B1("Rotation", "X"), B1("Rotation", "X")>>),
     Layout(<<Column("Marker", "Body1", "\"1\"", "Position", "X"), B1("Position", "Y")>>),
     Layout(<<Column("Bone", "Body1", "\"1\"", "Position", "X")>>),
     Layout(<<B1("Position", "W")>>),
     ExampleLayout}

ReuseLayouts ==
    {Layout(<<B1("Position", "X")>>),
     Layout(<<B2("Rotation", "W"), Column("Marker", "M1", "\"1\"", "Position", "X")>>),
     Layout(<<B1("Position", "W")>>)}

\* the cells of a data row
FrameCells == {ToString(i) : i \in (0 - 1)..(MaxRows - 1)}

TimeCells == {"0.0", "1"}

\* the cells of data column i: empty, a decimal number, not a number
ValueCells(i) == {"", "abc"} \cup (IF i = 1 THEN {"1.0", "2"} ELSE {"0.5"})

\* broken rows: a blank line, no time, an empty time, a frame number that is
\* no integer, no value cells
BrokenRows == {<<"">>, <<"0">>, <<"0", "">>, <<"x", "0.5">>, <<"0.0", "0.5">>, <<"0", "0.5">>}

\* the value cells of the rows read under the example header
ExampleValues ==
    {<<"1.0", "2.0", "3.0", "0.0", "0.0", "0.0", "1.0">>,
     <<"", "2.0", "3.0", "", "", "", "">>,
     <<"", "", "", "0.0", "", "", "">>,
     <<"", "", "", "", "", "", "">>}

\* the rows of an export with n data columns
DataRows(n) ==
    LET values == IF n <= MaxCols
                  THEN {v \in [1..n -> {"", "abc", "1.0", "2", "0.5"}] :
                           \A i \in 1..n : v[i] \in ValueCells(i)}
                  ELSE ExampleValues
    IN  {<<f, t>> \o v : f \in FrameCells, t \in TimeCells, v \in values}
        \cup BrokenRows

\* rows in frame order only, every value cell the same
PlainRows(n) ==
    {<<f, "0.5">> \o [i \in 1..n |-> v] : f \in {"0", "1"}, v \in {"", "1.0"}}

\* those rows and the broken ones
ReuseRows(n) == PlainRows(n) \cup BrokenRows

(***************************************************************************)
(* The steps of readCSV.  L1 are the first lines, LY the headers and       *)
(* RW the rows the stream may deliver after the header read; maxParses     *)
(* bounds the calls of readCSV on the Take.  Each specification below      *)
(* takes the same steps over its own inputs.                               *)
(***************************************************************************)
Init ==
    /\ take = Take
    /\ stream = <<>>
    /\ pc = "new"
    /\ err = ""
    /\ parses = 0

\* the data columns of the header line 3 the stream delivered
NumCols == Len(SliceFrom(stream[3], 2))

\* the data rows consumed
NumRows == IF Len(stream) > 7 THEN Len(stream) - 7 ELSE 0

After(r, next) ==
    /\ take' = r.take
    /\ err' = r.err
    /\ pc' = IF r.err = "" THEN next ELSE "error"

readCSV(maxParses) ==
    /\ pc \in {"new", "done", "error"}
    /\ parses < maxParses
    /\ parses' = parses + 1
    /\ take' = ResetForRead(take)
    /\ stream' = <<>>
    /\ err' = ""
    /\ pc' = "line1"

ReadLine1(L1) ==
    /\ pc = "line1"
    /\ \E raw \in L1 :
          /\ stream' = Append(stream, CSVReader_next(raw))
          /\ After(HeaderLine1(take, CSVReader_next(raw)), "line2")
    /\ UNCHANGED parses

ReadLine2 ==
    /\ pc = "line2"
    /\ \E raw \in Line2s :
          /\ stream' = Append(stream, CSVReader_next(raw))
          /\ After(HeaderLine2(take, CSVReader_next(raw)), "line3")
    /\ UNCHANGED parses

ReadLine3(LY) ==
    /\ pc = "line3"
    /\ \E raw \in {l.line3 : l \in LY} :
          /\ stream' = Append(stream, CSVReader_next(raw))
          /\ After(HeaderLine3(take, CSVReader_next(raw)), "line4")
    /\ UNCHANGED parses

ReadLines4to7(LY) ==
    /\ pc = "line4"
    /\ \E l \in {y \in LY : CSVReader_next(y.line3) = stream[3]} :
          LET line4 == CSVReader_next(l.line4)
              line5 == CSVReader_next(l.line5)
              line6 == CSVReader_next(l.line6)
              line7 == CSVReader_next(l.line7)
          IN  /\ stream' = stream \o <<line4, line5, line6, line7>>
              /\ After(HeaderLines4to7(take, line4, line5, line6, line7), "data")
    /\ UNCHANGED parses

\* _read_header from line 4 on when the file ends after j of the lines 4 to 7
TruncatedLines4to7(self, lines, j) ==
    LET t1 == IF j >= 1 THEN [self EXCEPT !._raw_labels = SliceFrom(lines[1], 2)]
              ELSE self
    IN  IF j >= 3 THEN [t1 EXCEPT !._raw_fields = SliceFrom(lines[3], 2)]
        ELSE t1

\* next(stream) raises StopIteration: the file ends inside the header
HeaderTruncated(LY) ==
    /\ pc \in {"line1", "line2", "line3", "line4"}
    /\ pc' = "error"
    /\ err' = "StopIteration"
    /\ IF pc = "line4"
       THEN \E l \in {y \in LY : CSVReader_next(y.line3) = stream[3]}, j \in 0..3 :
               LET lines == <<CSVReader_next(l.line4), CSVReader_next(l.line5),
                              CSVReader_next(l.line6)>>
               IN  /\ stream' = stream \o SubSeq(lines, 1, j)
                   /\ take' = TruncatedLines4to7(take, lines, j)
       ELSE UNCHANGED <<take, stream>>
    /\ UNCHANGED parses

ReadDataRow(RW) ==
    /\ pc = "data"
    /\ NumRows < MaxRows
    /\ \E raw \in RW :
          /\ stream' = Append(stream, CSVReader_next(raw))
          /\ After(DataRow(take, CSVReader_next(raw)), "data")
    /\ UNCHANGED parses

\* the stream is exhausted: the loop of _read_data ends and readCSV returns
EndOfData ==
    /\ pc = "data"
    /\ pc' = "done"
    /\ UNCHANGED <<take, stream, err, parses>>

\* one readCSV of an export whose rows take every form
Next ==
    \/ readCSV(1)
    \/ ReadLine1(DataLine1s)
    \/ ReadLine2
    \/ ReadLine3(DataLayouts)
    \/ ReadLines4to7(DataLayouts)
    \/ HeaderTruncated(DataLayouts)
    \/ ReadDataRow(DataRows(NumCols))
    \/ EndOfData

Spec == Init /\ [][Next]_vars

\* one readCSV of an export whose header takes every form
NextHeader ==
    \/ readCSV(1)
    \/ ReadLine1(HeaderLine1s)
    \/ ReadLine2
    \/ ReadLine3(GeneratedLayouts)
    \/ ReadLines4to7(GeneratedLayouts)
    \/ HeaderTruncated(GeneratedLayouts)
    \/ ReadDataRow(PlainRows(NumCols))
    \/ EndOfData

SpecHeader == Init /\ [][NextHeader]_vars

\* readCSV called again on a Take that has read an export
NextReuse ==
    \/ readCSV(MaxParses)
    \/ ReadLine1(ReuseLine1s)
    \/ ReadLine2
    \/ ReadLine3(ReuseLayouts)
    \/ ReadLines4to7(ReuseLayouts)
    \/ HeaderTruncated(ReuseLayouts)
    \/ ReadDataRow(ReuseRows(NumCols))
    \/ EndOfData

SpecReuse == Init /\ [][NextReuse]_vars

(***************************************************************************)
(* What the stream delivered, as the claims speak of it.                   *)
(***************************************************************************)
\* the fields of line i of the input
Fields(i) == stream[i]

\* the fields of data row k, the first data row being row 0
RowFields(k) == Fields(8 + k)

\* the value fields of data row k
RowValues(k) == SliceFrom(RowFields(k), 2)

\* row k got as far as the frame slots: its frame number and time parse
RowFramed(k) ==
    /\ Len(RowFields(k)) >= 2
    /\ IsInt(RowFields(k)[1])
    /\ IsFloat(RowFields(k)[2])

\* the data rows that got a frame slot
FramedRows == {k \in 0..(NumRows - 1) : RowFramed(k)}

\* the data rows whose processing ran to its end
CompletedRows == IF pc = "error" THEN NumRows - 1 ELSE NumRows

\* the rows declare the frame numbers 0, 1, 2, ... in row order
FramesInOrder == \A k \in FramedRows : int(RowFields(k)[1]) = k

\* the mappings (by position in the column map) bound to func of body label
Maps(func, label) ==
    {i \in 1..Len(take._column_map) :
        take._column_map[i].setter = BoundSetter(label, func)}

\* the field of row k that mapping i reads
CellOf(k, i) == RowValues(k)[take._column_map[i].column + 1]

\* some column mapped to func of body label is not empty in row k
Written(func, label, k) == \E i \in Maps(func, label) : CellOf(k, i) # ""

\* component a of vec is the value of the one column mapped to axis a in row
\* k, and 0.0 when that value is empty or no column is mapped to the axis
AxisOK(vec, func, label, k, a) ==
    LET is == {i \in Maps(func, label) : take._column_map[i].axis = a}
    IN  CASE is = {} -> vec[a + 1] = 0
          [] Cardinality(is) = 1 ->
                LET i == CHOOSE j \in is : TRUE
                IN  vec[a + 1] = IF CellOf(k, i) = "" THEN 0 ELSE float(CellOf(k, i))
          [] OTHER -> TRUE

VectorOK(vec, func, label, k, dim) ==
    Written(func, label, k) =>
        /\ Len(vec) = dim
        /\ \A a \in 0..(dim - 1) : AxisOK(vec, func, label, k, a)

\* the export is the example: body "Body1" with three position and four
\* rotation columns and first row (0, 0.0, 1.0, 2.0, 3.0, 0.0, 0.0, 0.0, 1.0)
ExampleRead ==
    /\ NumRows >= 1
    /\ Fields(3) = CSVReader_next(ExampleLayout.line3)
    /\ Fields(7) = CSVReader_next(ExampleLayout.line7)
    /\ RowFields(0) = <<"0", "0.0", "1.0", "2.0", "3.0", "0.0", "0.0", "0.0", "1.0">>

(***************************************************************************)
(* C1: at every point of a parse every rigid body has as many times as     *)
(* positions as rotations, the same number for all bodies: the number of   *)
(* data rows that got a frame slot; after a successful readCSV that is the *)
(* number of data rows of the input.                                       *)
(***************************************************************************)
C1_FrameListsAligned ==
    /\ \A l \in DOMAIN take.rigid_bodies :
          LET body == take.rigid_bodies[l]
          IN  /\ Len(body.times) = Cardinality(FramedRows)
              /\ Len(body.positions) = Cardinality(FramedRows)
              /\ Len(body.rotations) = Cardinality(FramedRows)
    /\ pc = "done" => Cardinality(FramedRows) = NumRows

\* a parse of two bodies aborted in its second row, after the frame slots
C1_Witness ==
    /\ pc = "error"
    /\ NumRows = 2
    /\ Cardinality(DOMAIN take.rigid_bodies) = 2
    /\ \A l \in DOMAIN take.rigid_bodies : Len(take.rigid_bodies[l].rotations) = 2

(***************************************************************************)
(* C2: with the frame numbers 0, 1, 2, ... in row order, for every body    *)
(* and every row k a position (rotation) with a non-empty mapped column is *)
(* a 3-vector (4-vector) holding the parsed value of the column mapped to  *)
(* each axis and 0.0 where that column is empty; times[k] is the time of   *)
(* row k; the example row gives [1.0, 2.0, 3.0] and [0.0, 0.0, 0.0, 1.0].  *)
(***************************************************************************)
C2_RowValuesStored ==
    /\ FramesInOrder =>
          \A l \in DOMAIN take.rigid_bodies : \A k \in 0..(CompletedRows - 1) :
             LET body == take.rigid_bodies[l]
             IN  /\ body.times[k + 1] = float(RowFields(k)[2])
                 /\ VectorOK(body.positions[k + 1], "_set_position", l, k, 3)
                 /\ VectorOK(body.rotations[k + 1], "_set_rotation", l, k, 4)
    /\ ExampleRead /\ CompletedRows >= 1 =>
          /\ take.rigid_bodies["Body1"].positions[1] = <<10, 20, 30>>
          /\ take.rigid_bodies["Body1"].rotations[1] = <<0, 0, 0, 10>>

\* the example row, and after it a row with an empty X and values for Y and Z
C2_Witness ==
    /\ pc = "done"
    /\ ExampleRead
    /\ NumRows = 2
    /\ FramesInOrder
    /\ take.rigid_bodies["Body1"].positions = << <<10, 20, 30>>, <<0, 20, 30>> >>
    /\ take.rigid_bodies["Body1"].rotations = << <<0, 0, 0, 10>>, None >>

(***************************************************************************)
(* C3: with the frame numbers in row order, positions[k] of a body is None *)
(* exactly when every column mapped to its position is empty in row k, and *)
(* rotations[k] likewise; a slot is never a zero vector for being appended.*)
(***************************************************************************)
C3_AbsentIffAllEmpty ==
    FramesInOrder =>
       \A l \in DOMAIN take.rigid_bodies : \A k \in 0..(CompletedRows - 1) :
          LET body == take.rigid_bodies[l]
          IN  /\ body.positions[k + 1] = None <=> ~Written("_set_position", l, k)
              /\ body.rotations[k + 1] = None <=> ~Written("_set_rotation", l, k)

\* a row that is empty for one body and not for the other
C3_Witness ==
    /\ pc = "data"
    /\ NumRows = 2
    /\ FramesInOrder
    /\ DOMAIN take.rigid_bodies = {"Body1", "Body2"}
    /\ take.rigid_bodies["Body1"].positions[2] = None
    /\ take.rigid_bodies["Body2"].rotations[2] # None
    /\ take.rigid_bodies["Body1"].positions[1] # None

\* row k is a well-formed row: an integer, a time and a number or nothing in
\* every data column
RowWellFormed(k) ==
    /\ RowFramed(k)
    /\ Len(RowValues(k)) = NumCols
    /\ \A c \in 1..NumCols : RowValues(k)[c] = "" \/ IsFloat(RowValues(k)[c])

(***************************************************************************)
(* C4: whatever integers the rows declare as frame numbers, readCSV ends   *)
(* without error and the values of the k-th data row are in slot k of the  *)
(* target body.                                                            *)
(***************************************************************************)
C4_RowOrderSlots ==
    (NumRows >= 1 /\ \A k \in 0..(NumRows - 1) : RowWellFormed(k)) =>
       /\ pc # "error"
       /\ \A l \in DOMAIN take.rigid_bodies : \A k \in 0..(NumRows - 1) :
             LET body == take.rigid_bodies[l]
             IN  /\ VectorOK(body.positions[k + 1], "_set_position", l, k, 3)
                 /\ VectorOK(body.rotations[k + 1], "_set_rotation", l, k, 4)
                 /\ body.positions[k + 1] = None <=> ~Written("_set_position", l, k)
                 /\ body.rotations[k + 1] = None <=> ~Written("_set_rotation", l, k)

(***************************************************************************)
(* C10: a data row changes nothing but the frame lists of the bodies: the  *)
(* column map, the bodies there are, their labels and IDs, the ignored     *)
(* labels and the metadata stay, and with the frame numbers in row order   *)
(* so do the slots of the earlier rows.                                    *)
(***************************************************************************)
C10_DataRowFrame ==
    [][pc = "data" =>
          /\ take'._column_map = take._column_map
          /\ DOMAIN take'.rigid_bodies = DOMAIN take.rigid_bodies
          /\ \A l \in DOMAIN take.rigid_bodies :
                /\ take'.rigid_bodies[l].label = take.rigid_bodies[l].label
                /\ take'.rigid_bodies[l].ID = take.rigid_bodies[l].ID
          /\ take'._ignored_labels = take._ignored_labels
          /\ take'.frame_rate = take.frame_rate
          /\ take'.rotation_type = take.rotation_type
          /\ take'.units = take.units
          /\ take'._raw_info = take._raw_info
          /\ FramesInOrder' =>
                \A l \in DOMAIN take.rigid_bodies :
                   \A j \in 1..Len(take.rigid_bodies[l].times) :
                      /\ take'.rigid_bodies[l].times[j] = take.rigid_bodies[l].times[j]
                      /\ take'.rigid_bodies[l].positions[j] = take.rigid_bodies[l].positions[j]
                      /\ take'.rigid_bodies[l].rotations[j] = take.rigid_bodies[l].rotations[j]
    ]_vars

\* two rows in frame order have written the position of a body
C10_Witness ==
    /\ pc = "data"
    /\ NumRows = 2
    /\ FramesInOrder
    /\ \E l \in DOMAIN take.rigid_bodies :
          /\ Len(take.rigid_bodies[l].positions) = 2
          /\ take.rigid_bodies[l].positions[1] # None
          /\ take.rigid_bodies[l].positions[2] # None

(***************************************************************************)
(* The header the stream delivered, as the claims speak of it.             *)
(***************************************************************************)
\* line has a (key, value) pair with the key
HasKey(line, key) == \E i \in 1..(Len(line) \div 2) : line[2 * i - 1] = key

\* the value paired with the key
ValueOf(line, key) ==
    line[2 * (CHOOSE i \in 1..(Len(line) \div 2) : line[2 * i - 1] = key)]

\* the keys of the pairs of the line
KeysOf(line) == {line[2 * i - 1] : i \in 1..(Len(line) \div 2)}

VersionAccepted(line) ==
    /\ Len(line) >= 2
    /\ line[1] = "Format Version"
    /\ line[2] \in {"1.2", "1.21"}

\* the cells of lines 3 to 7 for the data columns
TypeCells == SliceFrom(Fields(3), 2)

LabelCells == SliceFrom(Fields(4), 2)

IDCells == SliceFrom(Fields(5), 2)

FieldCells == SliceFrom(Fields(6), 2)

AxisCells == SliceFrom(Fields(7), 2)

\* lines 3 to 7 have a cell for every data column
Rectangular ==
    /\ Len(LabelCells) = Len(TypeCells)
    /\ Len(IDCells) = Len(TypeCells)
    /\ Len(FieldCells) = Len(TypeCells)
    /\ Len(AxisCells) = Len(TypeCells)

RigidBodyColumns == {c \in 1..Len(TypeCells) : TypeCells[c] = "Rigid Body"}

OtherColumns == {c \in 1..Len(TypeCells) : TypeCells[c] # "Rigid Body"}

BadVersion ==
    /\ Len(stream) >= 1
    /\ Len(Fields(1)) >= 2
    /\ Fields(1)[1] = "Format Version"
    /\ Fields(1)[2] \notin {"1.2", "1.21"}

BadRotation ==
    /\ Len(stream) >= 1
    /\ HasKey(Fields(1), "Rotation Type")
    /\ ValueOf(Fields(1), "Rotation Type") # "Quaternion"

BadLine2 == Len(stream) >= 2 /\ Fields(2) # <<>>

BadAssetType ==
    /\ Len(stream) >= 3
    /\ \E c \in 1..Len(TypeCells) :
          TypeCells[c] \notin {"Rigid Body", "Rigid Body Marker", "Marker"}

\* readCSV failed on the header, the file not being cut short
HeaderRejected == pc = "error" /\ Len(stream) <= 7 /\ err # "StopIteration"

\* readCSV failed on line 1
Line1Rejected == pc = "error" /\ Len(stream) = 1 /\ err # "StopIteration"

\* the header was parsed to its end
HeaderParsed == Len(stream) >= 7 /\ ~HeaderRejected

\* the lines after line 1 delivered so far are those of a well-formed header
RestWellFormed ==
    /\ Len(stream) >= 2 => Fields(2) = <<>>
    /\ Len(stream) >= 3 => ~BadAssetType
    /\ Len(stream) >= 7 =>
          /\ Rectangular
          /\ \A c \in RigidBodyColumns :
                /\ FieldCells[c] = "Rotation" => AxisCells[c] \in {"X", "Y", "Z", "W"}
                /\ FieldCells[c] = "Position" => AxisCells[c] \in {"X", "Y", "Z"}

(***************************************************************************)
(* C5: a header with a Format Version other than 1.2 and 1.21, a Rotation  *)
(* Type other than Quaternion, a second line that is not blank or an asset *)
(* type that is not supported makes readCSV fail before any data row: no   *)
(* line after line 7 is consumed (none after line 1 for a bad version) and *)
(* no rigid body has a frame slot.                                         *)
(***************************************************************************)
C5_HeaderFailuresFatal ==
    /\ BadVersion => pc = "error" /\ err = "AssertionError" /\ Len(stream) = 1
    /\ BadRotation => pc = "error" /\ err = "AssertionError" /\ Len(stream) = 1
    /\ BadLine2 => pc = "error" /\ err = "AssertionError" /\ Len(stream) = 2
    /\ BadAssetType => pc = "error" /\ err = "AssertionError" /\ Len(stream) = 3
    /\ BadVersion \/ BadRotation \/ BadLine2 \/ BadAssetType =>
          /\ Len(stream) <= 7
          /\ \A l \in DOMAIN take.rigid_bodies :
                /\ take.rigid_bodies[l].times = <<>>
                /\ take.rigid_bodies[l].positions = <<>>
                /\ take.rigid_bodies[l].rotations = <<>>

\* the read of a header with an unsupported asset type has failed
C5_Witness == BadAssetType /\ pc = "error" /\ Len(stream) = 3

\* a line 1 of pairs with an accepted version and, where it has them, the
\* accepted rotation type and a frame rate that is a number
ClaimedLine1OK(line) ==
    /\ Len(line) % 2 = 0
    /\ VersionAccepted(line)
    /\ HasKey(line, "Rotation Type") => ValueOf(line, "Rotation Type") = "Quaternion"
    /\ HasKey(line, "Export Frame Rate") => IsFloat(ValueOf(line, "Export Frame Rate"))

\* the frame rate and the units are those of the line, or 120 and "Meters"
DefaultsApplied(line) ==
    /\ take.frame_rate = IF HasKey(line, "Export Frame Rate")
                         THEN float(ValueOf(line, "Export Frame Rate"))
                         ELSE floatOfInt(120)
    /\ take.units = IF HasKey(line, "Length Units")
                    THEN ValueOf(line, "Length Units")
                    ELSE "Meters"

\* such a line 1 that has the rotation type
AmendedLine1OK(line) == ClaimedLine1OK(line) /\ HasKey(line, "Rotation Type")

(***************************************************************************)
(* C6 as claimed: only "Format Version" is required on line 1; a header    *)
(* otherwise well formed that omits "Rotation Type", "Export Frame Rate"   *)
(* or "Length Units" is accepted, the frame rate defaulting to 120 and the *)
(* units to "Meters".                                                      *)
(***************************************************************************)
C6_OnlyFormatVersionRequired ==
    (Len(stream) >= 1 /\ ClaimedLine1OK(Fields(1)) /\ RestWellFormed) =>
       ~HeaderRejected /\ DefaultsApplied(Fields(1))

(***************************************************************************)
(* C6 as amended: "Format Version" and "Rotation Type" (Quaternion) are    *)
(* required on line 1.  A header otherwise well formed that omits "Export  *)
(* Frame Rate" or "Length Units" is accepted with the defaults 120 and     *)
(* "Meters"; one that omits "Rotation Type" is rejected on line 1.         *)
(***************************************************************************)
C6_FormatAndRotationRequired ==
    /\ (Len(stream) >= 1 /\ AmendedLine1OK(Fields(1)) /\ RestWellFormed) =>
          ~HeaderRejected /\ DefaultsApplied(Fields(1))
    /\ (Len(stream) >= 1 /\ ClaimedLine1OK(Fields(1))
           /\ ~HasKey(Fields(1), "Rotation Type")) =>
          Line1Rejected /\ err = "AssertionError"

\* a header with neither frame rate nor units was accepted with the defaults
C6_Witness ==
    /\ pc = "data"
    /\ ~HasKey(Fields(1), "Export Frame Rate")
    /\ ~HasKey(Fields(1), "Length Units")
    /\ take.frame_rate = floatOfInt(120)
    /\ take.units = "Meters"

(***************************************************************************)
(* C7 as claimed: a line 1 with an odd number of fields is rejected.       *)
(***************************************************************************)
C7_OddLine1Rejected ==
    (Len(stream) >= 1 /\ Len(Fields(1)) % 2 = 1) => Line1Rejected

(***************************************************************************)
(* C7 as amended: the number of fields of line 1 is not checked.  A line 1 *)
(* with an odd number of fields, three or more, is read as the line        *)
(* without its last field: accepted when that line is, with the last field *)
(* stored nowhere; a line 1 of one field is rejected.                      *)
(***************************************************************************)
C7_OddLine1LastFieldDropped ==
    (Len(stream) >= 1 /\ Len(Fields(1)) % 2 = 1) =>
       LET line == Fields(1)
           paired == SubSeq(line, 1, Len(line) - 1)
       IN  IF AmendedLine1OK(paired)
           THEN /\ ~Line1Rejected
                /\ take._raw_info = [k \in KeysOf(paired) |-> ValueOf(paired, k)]
                /\ DefaultsApplied(paired)
           ELSE Line1Rejected

\* a header whose line 1 ends in a key without a value was accepted
C7_Witness ==
    /\ pc = "data"
    /\ Len(Fields(1)) = 5
    /\ Fields(1)[5] = "Length Units"
    /\ "Length Units" \notin DOMAIN take._raw_info
    /\ take.units = "Meters"

(***************************************************************************)
(* C8: after the header a column that is no "Rigid Body" column has made   *)
(* no RigidBody and no ColumnMapping and its label is in _ignored_labels   *)
(* (once, however many columns share it); the keys of rigid_bodies are the *)
(* labels of the "Rigid Body" columns and every ColumnMapping is that of a *)
(* "Rigid Body" column.                                                    *)
(***************************************************************************)
C8_OnlyRigidBodyColumnsMapped ==
    (HeaderParsed /\ Rectangular) =>
       /\ DOMAIN take.rigid_bodies = {LabelCells[c] : c \in RigidBodyColumns}
       /\ take._ignored_labels = {LabelCells[c] : c \in OtherColumns}
       /\ \A i \in 1..Len(take._column_map) :
             /\ take._column_map[i].column + 1 \in RigidBodyColumns
             /\ take._column_map[i].setter.self = LabelCells[take._column_map[i].column + 1]
       /\ Len(take._column_map) =
             Cardinality({c \in RigidBodyColumns : FieldCells[c] \in {"Rotation", "Position"}})

\* the header with three marker columns of one label and a marker that has
\* the label of a rigid body
C8_Witness ==
    /\ pc = "data"
    /\ Fields(3) = CSVReader_next(MarkersLayout.line3)
    /\ Fields(4) = CSVReader_next(MarkersLayout.line4)
    /\ take._ignored_labels = {"M1", "Body1"}
    /\ DOMAIN take.rigid_bodies = {"Body1", "Body2"}
    /\ Len(take._column_map) = 2

\* the loop of _read_data over the rows, lines i and on of the file
RECURSIVE ReadRows(_, _, _)
ReadRows(self, lines, i) ==
    IF i > Len(lines) THEN self
    ELSE ReadRows(DataRow(self, lines[i]).take, lines, i + 1)

\* the Take a new Take object is after readCSV of a file of these lines
FreshRead(lines) ==
    LET t0 == Take
        t1 == HeaderLine1(t0, lines[1]).take
        t2 == HeaderLine2(t1, lines[2]).take
        t3 == HeaderLine3(t2, lines[3]).take
        t7 == HeaderLines4to7(t3, lines[4], lines[5], lines[6], lines[7]).take
    IN  ReadRows(t7, lines, 8)

(***************************************************************************)
(* C9: a readCSV leaves in the Take what reading the same input into a new *)
(* Take leaves, whatever the Take has read before: nothing of an earlier   *)
(* read survives.                                                          *)
(***************************************************************************)
C9_ReadIsFresh == pc = "done" => take = FreshRead(stream)

\* a second readCSV on the Take has ended, with the defaults of a line 1
\* that gives neither frame rate nor units
C9_Witness ==
    /\ pc = "done"
    /\ parses = 2
    /\ ~HasKey(Fields(1), "Export Frame Rate")
    /\ DOMAIN take.rigid_bodies = {"Body1"}
    /\ Len(take.rigid_bodies["Body1"].times) = 2
    /\ take.rigid_bodies["Body1"].positions[2] # None

=============================================================================
